---- MODULE Spec2Model ----
(***************************************************************************)
(* A model of pokemon_products.py: the ShopSpider crawl (one start URL,    *)
(* parse() per response, closed() on spider close) driven by a Scrapy      *)
(* engine that schedules requests, downloads them and delivers responses.  *)
(*                                                                         *)
(* Text is a sequence of one-character strings, so that whitespace         *)
(* handling, the price regular expression, float() and the "{:,.2f}"       *)
(* formatting are computed character by character.                         *)
(***************************************************************************)
EXTENDS Integers, Sequences, FiniteSets, TLC

VARIABLES
    queue,        \* scheduler: requests waiting to be downloaded (URLs, FIFO)
    inflight,     \* downloader: requests being fetched
    responses,    \* downloaded responses waiting for the parse() callback
    items,        \* self.items: OrderedDict as a sequence of <<key, record>>
    seq,          \* self.seq
    phase,        \* "running" | "closed" (spider lifecycle)
    closedCalls,  \* number of times closed() has run
    failed,       \* history: whether a fetch has failed in this run
    pageStart,    \* history: self.seq when the latest parse() call began
    csv_file,     \* self.csv_file on disk: [exists, rows]
    xlsx_file,    \* self.xlsx_file on disk: [exists, cells, merged, ...]
    price_in,     \* argument of a stand-alone parse_price call
    price_out     \* its results so far (empty before the call)

vars == <<queue, inflight, responses, items, seq, phase, closedCalls, failed,
          pageStart, csv_file, xlsx_file, price_in, price_out>>

crawlVars == <<queue, inflight, responses, items, seq, phase, closedCalls,
               failed, pageStart, csv_file, xlsx_file>>

------------------------------------------------------------------------------
(* Bounds of the model *)

\* longest amount text given to a stand-alone parse_price call
MaxLen == 4
\* cap on the number of items a crawl accumulates
MaxSeq == 3
\* number of distinct catalog URLs
NumPages == 2

------------------------------------------------------------------------------
(* Program constants *)

CONCURRENT_REQUESTS == 1

\* Python's None where a float is expected
None == [some |-> FALSE, m |-> 0, e |-> 0]

\* no match of a regular expression (a match of "+" is never empty)
NoMatch == <<>>

NA == <<"N", "/", "A">>
currency_symbol == <<"$">>
start_url == 1

------------------------------------------------------------------------------
(* Text helpers: what Python's str methods and re do on character sequences *)

IsSpace(c) == c \in {" ", "\t"}

IsDigit(c) == c \in {"0", "1", "2", "3", "4", "5", "6", "7", "8", "9"}

RECURSIVE LStrip(_)
LStrip(s) ==
    IF s # <<>> /\ IsSpace(Head(s)) THEN LStrip(Tail(s)) ELSE s

RECURSIVE RStrip(_)
RStrip(s) ==
    IF s # <<>> /\ IsSpace(s[Len(s)]) THEN RStrip(SubSeq(s, 1, Len(s) - 1)) ELSE s

\* str.strip()
Strip(s) == RStrip(LStrip(s))

\* re.sub(r"\s+", " ", text)
RECURSIVE CollapseWs(_)
CollapseWs(s) ==
    IF s = <<>> THEN <<>>
    ELSE IF IsSpace(Head(s)) THEN <<" ">> \o CollapseWs(LStrip(s))
    ELSE <<Head(s)>> \o CollapseWs(Tail(s))

\* " ".join(parts)
RECURSIVE JoinSp(_)
JoinSp(parts) ==
    IF parts = <<>> THEN <<>>
    ELSE IF Len(parts) = 1 THEN parts[1]
    ELSE parts[1] \o <<" ">> \o JoinSp(Tail(parts))

\* str.replace(c, "")
RECURSIVE RemoveChar(_, _)
RemoveChar(s, c) ==
    IF s = <<>> THEN <<>>
    ELSE IF Head(s) = c THEN RemoveChar(Tail(s), c)
    ELSE <<Head(s)>> \o RemoveChar(Tail(s), c)

RECURSIVE CountChar(_, _)
CountChar(s, c) ==
    IF s = <<>> THEN 0
    ELSE (IF Head(s) = c THEN 1 ELSE 0) + CountChar(Tail(s), c)

Contains(s, c) == \E i \in 1..Len(s) : s[i] = c

AmpEntity == <<"&", "a", "m", "p", ";">>

\* html.unescape restricted to the entity &amp;
RECURSIVE UnescapeAmp(_)
UnescapeAmp(s) ==
    IF s = <<>> THEN <<>>
    ELSE IF Len(s) >= 5 /\ SubSeq(s, 1, 5) = AmpEntity
         THEN <<"&">> \o UnescapeAmp(SubSeq(s, 6, Len(s)))
    ELSE <<Head(s)>> \o UnescapeAmp(Tail(s))

\* ftfy.fix_text on the characters of this model: every character here is
\* plain ASCII, which ftfy leaves alone except that it decodes HTML entities
\* in text that holds no "<".
fix_text(s) == IF Contains(s, "<") THEN s ELSE UnescapeAmp(s)

\* ShopSpider.clean_text
clean_text(text) ==
    IF text = <<>> THEN <<>>
    ELSE fix_text(Strip(CollapseWs(text)))

------------------------------------------------------------------------------
(* Numbers: a float read from a short decimal literal is the pair          *)
(* [m, e] standing for m / 10^e, with trailing zeros removed so that equal *)
(* floats are equal pairs.                                                 *)

RECURSIVE Pow10(_)
Pow10(n) == IF n = 0 THEN 1 ELSE 10 * Pow10(n - 1)

DigitVal(c) ==
    CASE c = "0" -> 0 [] c = "1" -> 1 [] c = "2" -> 2 [] c = "3" -> 3
      [] c = "4" -> 4 [] c = "5" -> 5 [] c = "6" -> 6 [] c = "7" -> 7
      [] c = "8" -> 8 [] c = "9" -> 9

DigitChar(d) ==
    CASE d = 0 -> "0" [] d = 1 -> "1" [] d = 2 -> "2" [] d = 3 -> "3"
      [] d = 4 -> "4" [] d = 5 -> "5" [] d = 6 -> "6" [] d = 7 -> "7"
      [] d = 8 -> "8" [] d = 9 -> "9"

\* value of a string of digits
RECURSIVE DigitsVal(_)
DigitsVal(s) ==
    IF s = <<>> THEN 0
    ELSE 10 * DigitsVal(SubSeq(s, 1, Len(s) - 1)) + DigitVal(s[Len(s)])

RECURSIVE Normalize(_, _)
Normalize(m, e) ==
    IF e > 0 /\ m % 10 = 0 THEN Normalize(m \div 10, e - 1)
    ELSE [some |-> TRUE, m |-> m, e |-> e]

DotPos(s) == CHOOSE i \in 1..Len(s) : s[i] = "."

\* whether float(s) succeeds, for s over digits and "."
FloatOk(s) ==
    /\ \A i \in 1..Len(s) : IsDigit(s[i]) \/ s[i] = "."
    /\ CountChar(s, ".") <= 1
    /\ \E i \in 1..Len(s) : IsDigit(s[i])

\* float(s): the value, or None where Python raises ValueError
float(s) ==
    IF ~FloatOk(s) THEN None
    ELSE IF ~Contains(s, ".") THEN Normalize(DigitsVal(s), 0)
    ELSE LET p == DotPos(s)
             ip == SubSeq(s, 1, p - 1)
             fp == SubSeq(s, p + 1, Len(s))
         IN Normalize(DigitsVal(ip) * Pow10(Len(fp)) + DigitsVal(fp), Len(fp))

\* the value rounded to hundredths, in hundredths (round-half-even; amount
\* texts of the model hold no digit 5, so no tie is ever rounded)
Cents(num) ==
    IF num.e <= 2 THEN num.m * Pow10(2 - num.e)
    ELSE LET u == Pow10(num.e - 2)
             q == num.m \div u
             r == num.m % u
         IN IF 2 * r > u \/ (2 * r = u /\ q % 2 = 1) THEN q + 1 ELSE q

\* decimal digits of a natural number
RECURSIVE NatStr(_)
NatStr(n) ==
    IF n < 10 THEN <<DigitChar(n)>>
    ELSE NatStr(n \div 10) \o <<DigitChar(n % 10)>>

\* the "," option of format(): groups of three digits from the right
RECURSIVE Group3(_)
Group3(ds) ==
    IF Len(ds) <= 3 THEN ds
    ELSE Group3(SubSeq(ds, 1, Len(ds) - 3)) \o <<",">>
         \o SubSeq(ds, Len(ds) - 2, Len(ds))

\* f"{num:,.2f}"
Format2f(num) ==
    LET c == Cents(num)
    IN Group3(NatStr(c \div 100)) \o <<".">>
       \o <<DigitChar((c % 100) \div 10), DigitChar(c % 10)>>

------------------------------------------------------------------------------
(* parse_price *)

InClass(c) == IsDigit(c) \/ c = "." \/ c = ","

\* index of the first character of s that the class [\d\.,] matches, or 0
FirstClassPos(s) ==
    IF \E i \in 1..Len(s) : InClass(s[i])
    THEN CHOOSE i \in 1..Len(s) :
             InClass(s[i]) /\ \A j \in 1..(i - 1) : ~InClass(s[j])
    ELSE 0

\* the longest run of class characters starting at position i
RECURSIVE ClassRun(_, _)
ClassRun(s, i) ==
    IF i <= Len(s) /\ InClass(s[i]) THEN <<s[i]>> \o ClassRun(s, i + 1)
    ELSE <<>>

\* re.search(r"[\d\.,]+", s): m.group(0), or NoMatch
NumberSearch(s) ==
    IF FirstClassPos(s) = 0 THEN NoMatch ELSE ClassRun(s, FirstClassPos(s))

\* price_block.xpath("text()").getall(): the text nodes of every element
RECURSIVE TextNodes(_)
TextNodes(price_block) ==
    IF price_block = <<>> THEN <<>>
    ELSE Head(price_block).texts \o TextNodes(Tail(price_block))

\* line 47: joined text nodes, else the first element's markup
AmountText(price_block) ==
    LET joined == Strip(JoinSp(TextNodes(price_block)))
    IN fix_text(IF joined # <<>> THEN joined ELSE Head(price_block).html)

\* the structured decimal pattern \d+(,\d+)*(\.\d+)? : end of its match at i
RECURSIVE DigitsEnd(_, _)
DigitsEnd(s, i) ==
    IF i + 1 <= Len(s) /\ IsDigit(s[i + 1]) THEN DigitsEnd(s, i + 1) ELSE i

RECURSIVE GroupsEnd(_, _)
GroupsEnd(s, i) ==
    IF i + 2 <= Len(s) /\ s[i + 1] = "," /\ IsDigit(s[i + 2])
    THEN GroupsEnd(s, DigitsEnd(s, i + 2))
    ELSE i

FractionEnd(s, i) ==
    IF i + 2 <= Len(s) /\ s[i + 1] = "." /\ IsDigit(s[i + 2])
    THEN DigitsEnd(s, i + 2)
    ELSE i

FirstDigitPos(s) ==
    IF \E i \in 1..Len(s) : IsDigit(s[i])
    THEN CHOOSE i \in 1..Len(s) :
             IsDigit(s[i]) /\ \A j \in 1..(i - 1) : ~IsDigit(s[j])
    ELSE 0

\* first match of \d+(,\d+)*(\.\d+)? in s, or NoMatch
DecimalSearch(s) ==
    LET p == FirstDigitPos(s)
    IN IF p = 0 THEN NoMatch
       ELSE SubSeq(s, p, FractionEnd(s, GroupsEnd(s, DigitsEnd(s, p))))

\* mutant of parse_price: the structured pattern for the character class
parse_price_structured(price_block) ==
    IF price_block = <<>> THEN [display |-> NA, num |-> None]
    ELSE LET m == DecimalSearch(AmountText(price_block))
         IN IF m = NoMatch THEN [display |-> NA, num |-> None]
            ELSE LET num == float(RemoveChar(m, ","))
                 IN IF num = None THEN [display |-> NA, num |-> None]
                    ELSE [display |-> currency_symbol \o Format2f(num),
                          num |-> num]

\* ShopSpider.parse_price: (display, num)
parse_price(price_block) ==
    IF price_block = <<>> THEN [display |-> NA, num |-> None]
    ELSE LET m == NumberSearch(AmountText(price_block))
         IN IF m = NoMatch THEN [display |-> NA, num |-> None]
            ELSE LET num == float(RemoveChar(m, ","))
                 IN IF num = None THEN [display |-> NA, num |-> None]
                    ELSE [display |-> currency_symbol \o Format2f(num),
                          num |-> num]

------------------------------------------------------------------------------
(* The catalog: what the site can serve *)

Urls == 1..NumPages

\* an href attribute is text: the empty string, or the address of a page
Hrefs == {<<>>} \cup {<<u>> : u \in Urls}

\* one element matched by span.woocommerce-Price-amount.amount
El(t) == [texts |-> <<t>>, html |-> <<"<">> \o t \o <<">">>]

\* product containers (li.product.type-product): the title text, the matched
\* price elements and the thumbnail's src, each as .get(default="") yields it
Products ==
    { [title |-> <<"a">>, price_block |-> <<El(<<"1">>)>>, img |-> <<"i">>],
      [title |-> <<" ", "a", "\t">>,
       price_block |-> <<El(<<"1", ".", "0", "0", "1">>)>>, img |-> <<"i">>],
      [title |-> <<>>, price_block |-> <<>>, img |-> <<>>],
      [title |-> NA, price_block |-> <<El(<<"x">>)>>, img |-> <<" ">>],
      [title |-> AmpEntity, price_block |-> <<El(<<".">>)>>, img |-> <<>>],
      [title |-> <<>>, price_block |-> <<El(<<"1", ",", "0", "0", "0">>)>>,
       img |-> <<>>] }

SeqsUpTo(S, n) == UNION {[1..k -> S] : k \in 0..n}

\* what response.css("a.next.page-numbers::attr(href), a.next::attr(href)")
\* selects: nothing, one link, or the same link in the top and the bottom
\* pagination bar
NextLinkLists ==
    {<<>>} \cup {<<h>> : h \in Hrefs} \cup {<<<<u>>, <<u>>>> : u \in Urls}

------------------------------------------------------------------------------
(* ShopSpider.parse *)

\* OrderedDict.__setitem__: a new key is appended, a present key keeps its place
DictSet(od, k, v) ==
    IF \E i \in 1..Len(od) : od[i][1] = k
    THEN [i \in 1..Len(od) |-> IF od[i][1] = k THEN <<k, v>> ELSE od[i]]
    ELSE Append(od, <<k, v>>)

\* lines 74-84: the record built from one product container
Record(product) ==
    LET pp == parse_price(product.price_block)
    IN [Name |-> clean_text(product.title),
        PriceDisplay |-> pp.display,
        PriceNumeric |-> pp.num,
        Image |-> clean_text(product.img)]

\* lines 70-86: the loop over the products of one page; yields [items, seq]
RECURSIVE ExtractLoop(_, _, _)
ExtractLoop(products, its, n) ==
    IF products = <<>> THEN [items |-> its, seq |-> n]
    ELSE ExtractLoop(Tail(products),
                     DictSet(its, n + 1, Record(Head(products))), n + 1)

\* SelectorList.get(): the first selected value, as a list of at most one
GetFirst(sel) == IF sel = <<>> THEN <<>> ELSE <<Head(sel)>>

\* response.urljoin(href): the site's pagination hrefs are absolute
urljoin(base, href) == href[1]

\* mutant of FollowUps: a request for every selected link (getall for get)
RECURSIVE FollowEvery(_, _)
FollowEvery(base, sel) ==
    IF sel = <<>> THEN <<>>
    ELSE (IF Head(sel) # <<>> THEN <<urljoin(base, Head(sel))>> ELSE <<>>)
         \o FollowEvery(base, Tail(sel))

FollowUpsEvery(resp) == FollowEvery(resp.url, resp.nexts)

\* lines 89-97: the requests parse() yields for a response
FollowUps(resp) ==
    LET next_page == GetFirst(resp.nexts)
    IN IF next_page # <<>> /\ next_page[1] # <<>>
       THEN <<urljoin(resp.url, next_page[1])>>
       ELSE <<>>

------------------------------------------------------------------------------
(* ShopSpider.closed *)

\* Python's  x or "N/A"  on text
OrNA(s) == IF s = <<>> THEN NA ELSE s

Triple(r) == <<r.Name, r.Price, r.Image>>

\* lines 107-122: one accumulated record, normalised
CleanRow(it) ==
    [Name |-> OrNA(clean_text(it.Name)),
     Price |-> OrNA(it.PriceDisplay),
     PriceNumeric |-> it.PriceNumeric,
     Image |-> OrNA(clean_text(it.Image))]

\* mutant of CleanLoop: a later duplicate replaces the row kept for its triple
RECURSIVE CleanLoopLastWins(_, _, _)
CleanLoopLastWins(its, seen, cleaned) ==
    IF its = <<>> THEN cleaned
    ELSE LET r == CleanRow(Head(its)[2])
         IN IF Triple(r) \in seen
            THEN CleanLoopLastWins(Tail(its), seen,
                    [i \in 1..Len(cleaned) |->
                        IF Triple(cleaned[i]) = Triple(r) THEN r
                        ELSE cleaned[i]])
            ELSE CleanLoopLastWins(Tail(its), seen \cup {Triple(r)},
                                   Append(cleaned, r))

\* lines 105-122: the loop over self.items with the seen set
RECURSIVE CleanLoop(_, _, _)
CleanLoop(its, seen, cleaned) ==
    IF its = <<>> THEN cleaned
    ELSE LET r == CleanRow(Head(its)[2])
         IN IF Triple(r) \in seen
            THEN CleanLoop(Tail(its), seen, cleaned)
            ELSE CleanLoop(Tail(its), seen \cup {Triple(r)}, Append(cleaned, r))

Cleaned(its) == CleanLoop(its, {}, <<>>)

\* line 127: v == "N/A" or v == "" (None cannot occur: the fields are text)
IsSentinel(v) == v = NA \/ v = <<>>

\* mutant of EntirelyEmpty: any() for all()
AnyEmpty(r) ==
    IsSentinel(r.Name) \/ IsSentinel(r.Price) \/ IsSentinel(r.Image)

EntirelyEmpty(r) ==
    IsSentinel(r.Name) /\ IsSentinel(r.Price) /\ IsSentinel(r.Image)

\* mutant of Filtered: the surviving rows sorted by name (shorter names first)
RECURSIVE InsertByName(_, _)
InsertByName(sorted, r) ==
    IF sorted = <<>> THEN <<r>>
    ELSE IF Len(r.Name) < Len(Head(sorted).Name) THEN <<r>> \o sorted
    ELSE <<Head(sorted)>> \o InsertByName(Tail(sorted), r)

RECURSIVE SortByName(_)
SortByName(rows) ==
    IF rows = <<>> THEN <<>>
    ELSE InsertByName(SortByName(SubSeq(rows, 1, Len(rows) - 1)),
                      rows[Len(rows)])

FilteredSorted(cleaned) ==
    SortByName(SelectSeq(cleaned, LAMBDA r : ~EntirelyEmpty(r)))

\* lines 125-131
Filtered(cleaned) == SelectSeq(cleaned, LAMBDA r : ~EntirelyEmpty(r))

HeaderRow == << <<"N", "a", "m", "e">>, <<"P", "r", "i", "c", "e">>,
                <<"I", "m", "a", "g", "e">> >>

\* lines 139-147: the rows handed to csv.DictWriter, the header first
CsvRows(filtered) ==
    <<HeaderRow>> \o
    [i \in 1..Len(filtered) |->
        <<OrNA(filtered[i].Name), OrNA(filtered[i].Price),
          OrNA(filtered[i].Image)>>]

TextCell(s, font, fill) ==
    [t |-> "s", str |-> s, num |-> None, font |-> font, fill |-> fill,
     number_format |-> FALSE]

NumCell(x, fill) ==
    [t |-> "n", str |-> <<>>, num |-> x, font |-> "plain", fill |-> fill,
     number_format |-> TRUE]

NaFont(s) == IF s = NA THEN "na" ELSE "plain"

\* the note of the metadata row (its timestamp is left out)
MetaNote == <<"S", "o", "u", "r", "c", "e", "d">>

\* mutant of DataCell: the price cell holds the display text, not the number
DataCellDisplayText(r, r_idx, col) ==
    LET fill == (r_idx % 2 = 0)
    IN CASE col = 1 -> TextCell(OrNA(r.Name), NaFont(OrNA(r.Name)), fill)
         [] col = 2 -> TextCell(OrNA(r.Price), NaFont(OrNA(r.Price)), fill)
         [] col = 3 -> TextCell(OrNA(r.Image), NaFont(OrNA(r.Image)), fill)

\* lines 174-198: the three cells of data row r_idx
DataCell(r, r_idx, col) ==
    LET fill == (r_idx % 2 = 0)
    IN CASE col = 1 -> TextCell(OrNA(r.Name), NaFont(OrNA(r.Name)), fill)
         [] col = 2 -> IF r.PriceNumeric # None
                       THEN NumCell(r.PriceNumeric, fill)
                       ELSE TextCell(NA, "na", fill)
         [] col = 3 -> TextCell(OrNA(r.Image), NaFont(OrNA(r.Image)), fill)

\* lines 150-218: the worksheet that wb.save writes
Worksheet(filtered) ==
    LET n == Len(filtered)
        meta_row == n + 3
    IN [cells |->
            [rc \in ({1} \X (1..3)) \cup ((2..(n + 1)) \X (1..3))
                    \cup {<<meta_row, 1>>} |->
                IF rc[1] = 1 THEN TextCell(HeaderRow[rc[2]], "header", TRUE)
                ELSE IF rc[1] = meta_row THEN TextCell(MetaNote, "meta", FALSE)
                ELSE DataCell(filtered[rc[1] - 1], rc[1], rc[2])],
        merged |-> [row |-> meta_row, from |-> 1, to |-> Len(HeaderRow)],
        freeze_panes |-> 2]

NoFile == [exists |-> FALSE]

------------------------------------------------------------------------------
(* The crawl: Scrapy's engine around the spider *)

RemoveAt(s, i) == SubSeq(s, 1, i - 1) \o SubSeq(s, i + 1, Len(s))

Init ==
    /\ queue = <<start_url>>
    /\ inflight = <<>>
    /\ responses = <<>>
    /\ items = <<>>
    /\ seq = 0
    /\ phase = "running"
    /\ closedCalls = 0
    /\ failed = FALSE
    /\ pageStart = 0
    /\ csv_file = NoFile
    /\ xlsx_file = NoFile
    /\ price_in = <<>>
    /\ price_out = <<>>

\* the engine takes the next request from the scheduler when the downloader
\* has a free slot
StartDownload ==
    /\ phase = "running"
    /\ queue # <<>>
    /\ Len(inflight) < CONCURRENT_REQUESTS
    /\ inflight' = Append(inflight, Head(queue))
    /\ queue' = Tail(queue)
    /\ UNCHANGED <<responses, items, seq, phase, closedCalls, failed,
                   pageStart, csv_file, xlsx_file, price_in, price_out>>

\* a download succeeds: the site serves some page for the URL (any products
\* that still fit under MaxSeq, any pagination links)
Deliver ==
    /\ phase = "running"
    /\ \E i \in 1..Len(inflight) :
         \E products \in SeqsUpTo(Products, MaxSeq - seq) :
           \E nexts \in NextLinkLists :
             /\ responses' = Append(responses,
                    [url |-> inflight[i], products |-> products,
                     nexts |-> nexts])
             /\ inflight' = RemoveAt(inflight, i)
    /\ UNCHANGED <<queue, items, seq, phase, closedCalls, failed,
                   pageStart, csv_file, xlsx_file, price_in, price_out>>

\* mutant of FetchFail: the failed request is scheduled again
FetchFailRetry ==
    /\ phase = "running"
    /\ \E i \in 1..Len(inflight) :
         /\ inflight' = RemoveAt(inflight, i)
         /\ queue' = Append(queue, inflight[i])
    /\ failed' = TRUE
    /\ UNCHANGED <<responses, items, seq, phase, closedCalls,
                   pageStart, csv_file, xlsx_file, price_in, price_out>>

\* a download fails: the request has no errback, so nothing is called back
FetchFail ==
    /\ phase = "running"
    /\ \E i \in 1..Len(inflight) : inflight' = RemoveAt(inflight, i)
    /\ failed' = TRUE
    /\ UNCHANGED <<queue, responses, items, seq, phase, closedCalls,
                   pageStart, csv_file, xlsx_file, price_in, price_out>>

\* mutant of Parse: the counter starts again at every page
ParseResetSeq ==
    /\ phase = "running"
    /\ responses # <<>>
    /\ LET resp == Head(responses)
           out == ExtractLoop(resp.products, items, 0)
       IN /\ items' = out.items
          /\ seq' = out.seq
          /\ queue' = queue \o FollowUps(resp)
    /\ responses' = Tail(responses)
    /\ pageStart' = seq
    /\ UNCHANGED <<inflight, phase, closedCalls, failed, csv_file, xlsx_file,
                   price_in, price_out>>

\* the callback parse(response), run to the end of the generator
Parse ==
    /\ phase = "running"
    /\ responses # <<>>
    /\ LET resp == Head(responses)
           out == ExtractLoop(resp.products, items, seq)
       IN /\ items' = out.items
          /\ seq' = out.seq
          /\ queue' = queue \o FollowUps(resp)
    /\ responses' = Tail(responses)
    /\ pageStart' = seq
    /\ UNCHANGED <<inflight, phase, closedCalls, failed, csv_file, xlsx_file,
                   price_in, price_out>>

\* mutant of Close: the spider is closed although a request is scheduled
CloseEarly ==
    /\ phase = "running"
    /\ inflight = <<>> /\ responses = <<>>
    /\ phase' = "closed"
    /\ closedCalls' = closedCalls + 1
    /\ LET filtered == Filtered(Cleaned(items))
       IN /\ csv_file' = [exists |-> TRUE, rows |-> CsvRows(filtered)]
          /\ xlsx_file' = [exists |-> TRUE] @@ Worksheet(filtered)
    /\ UNCHANGED <<queue, inflight, responses, items, seq, failed,
                   pageStart, price_in, price_out>>

\* the spider is idle (nothing scheduled, downloading or being parsed): the
\* engine closes it and the spider_closed signal calls closed(reason)
Close ==
    /\ phase = "running"
    /\ queue = <<>> /\ inflight = <<>> /\ responses = <<>>
    /\ phase' = "closed"
    /\ closedCalls' = closedCalls + 1
    /\ LET filtered == Filtered(Cleaned(items))
       IN /\ csv_file' = [exists |-> TRUE, rows |-> CsvRows(filtered)]
          /\ xlsx_file' = [exists |-> TRUE] @@ Worksheet(filtered)
    /\ UNCHANGED <<queue, inflight, responses, items, seq, failed,
                   pageStart, price_in, price_out>>

Next == StartDownload \/ Deliver \/ FetchFail \/ Parse \/ Close

Spec == Init /\ [][Next]_vars

\* the engine never stalls while a step is possible
FairSpec == Spec /\ WF_vars(Next)

------------------------------------------------------------------------------
(* parse_price on its own: every price fragment over a small alphabet *)

AmountChars == {"0", "1", ",", ".", "x", " "}

\* no element matched; one element with one text node; two matched elements
\* (a struck-out and a current price); an element whose amount sits in a
\* child element, so that it has no text node of its own
PriceBlocks ==
    {<<>>}
    \cup {<<El(t)>> : t \in SeqsUpTo(AmountChars, MaxLen)}
    \cup {<<El(a), El(b)>> : a, b \in SeqsUpTo(AmountChars, 1)}
    \cup {<<[texts |-> <<>>, html |-> <<"<", "b", ">", "1", "<", "/", "b", ">">>]>>}

PriceInit ==
    /\ queue = <<start_url>>
    /\ inflight = <<>>
    /\ responses = <<>>
    /\ items = <<>>
    /\ seq = 0
    /\ phase = "running"
    /\ closedCalls = 0
    /\ failed = FALSE
    /\ pageStart = 0
    /\ csv_file = NoFile
    /\ xlsx_file = NoFile
    /\ price_in \in PriceBlocks
    /\ price_out = <<>>

ParsePriceCall ==
    /\ price_out = <<>>
    /\ price_out' = <<parse_price(price_in)>>
    /\ UNCHANGED <<price_in, queue, inflight, responses, items, seq, phase,
                   closedCalls, failed, pageStart, csv_file, xlsx_file>>

PriceNext == ParsePriceCall

PriceSpec == PriceInit /\ [][PriceNext]_vars

------------------------------------------------------------------------------
(* Claims about parse_price, checked under PriceSpec *)

\* the amount text of the call (empty when no element was matched)
CallAmount == IF price_in = <<>> THEN <<>> ELSE AmountText(price_in)

RECURSIVE DigitsOf(_)
DigitsOf(s) ==
    IF s = <<>> THEN <<>>
    ELSE (IF IsDigit(Head(s)) THEN <<Head(s)>> ELSE <<>>) \o DigitsOf(Tail(s))

\* number of characters of s after its "."  (0 when it has none)
FractionLen(s) ==
    IF \E i \in 1..Len(s) : s[i] = "."
    THEN Len(s) - (CHOOSE i \in 1..Len(s) : s[i] = ".")
    ELSE 0

\* num is the number that the decimal literal t (digits, one "." at most)
\* denotes
Denotes(num, t) ==
    /\ num.some
    /\ num.m * Pow10(FractionLen(t)) = DigitsVal(DigitsOf(t)) * Pow10(num.e)

\* the first maximal run of digits, "." and "," in s (s holds one)
FirstRun(s) ==
    LET i == CHOOSE k \in 1..Len(s) :
                 InClass(s[k]) /\ \A h \in 1..(k - 1) : ~InClass(s[h])
        j == CHOOSE k \in i..Len(s) :
                 /\ \A h \in i..k : InClass(s[h])
                 /\ (k = Len(s) \/ ~InClass(s[k + 1]))
    IN SubSeq(s, i, j)

\* C8 as stated: parse_price returns a number if and only if the amount text
\* holds a match of digits(,digits)*(.digits)?, the number is then the value
\* of the first such match with its commas removed, and the display is "N/A"
\* exactly when there is no number.
C8_FirstDecimalMatch ==
    price_out # <<>> =>
        LET r == price_out[1]
            d == DecimalSearch(CallAmount)
        IN /\ (r.num # None) <=> (d # NoMatch)
           /\ (d # NoMatch) => Denotes(r.num, RemoveChar(d, ","))
           /\ (r.display = NA) <=> (r.num = None)

\* C8 amended: parse_price returns a number if and only if the first maximal
\* run of digits, "." and "," in the amount text, with its commas removed,
\* holds at least one digit and at most one "."; the number is then the
\* value of that run read as a decimal literal; the display is "N/A" exactly
\* when there is no number.
C8_FirstRunIsDecimal ==
    price_out # <<>> =>
        LET r == price_out[1]
            a == CallAmount
        IN /\ (r.display = NA) <=> (r.num = None)
           /\ IF \A i \in 1..Len(a) : ~InClass(a[i]) THEN r.num = None
              ELSE LET t == RemoveChar(FirstRun(a), ",")
                   IN IF DigitsOf(t) # <<>> /\ CountChar(t, ".") <= 1
                      THEN Denotes(r.num, t)
                      ELSE r.num = None

\* a call whose run of digits, "." and "," is a number although it is not
\* the first match of the structured pattern
C8_Witness ==
    /\ price_out # <<>>
    /\ price_out[1].num # None
    /\ NumberSearch(CallAmount) # DecimalSearch(CallAmount)
    /\ Contains(CallAmount, ",")

------------------------------------------------------------------------------
(* Claims about the crawl and the export, checked under Spec *)

Exported == phase = "closed"

\* the data rows of the delimited file (the rows after the header)
DataRows == SubSeq(csv_file.rows, 2, Len(csv_file.rows))

ItemRec(k) == items[k][2]

\* the (Name, Price, Image) triple of accumulated item k after sentinel
\* normalisation
NormTriple(k) ==
    <<OrNA(clean_text(ItemRec(k).Name)), OrNA(ItemRec(k).PriceDisplay),
      OrNA(clean_text(ItemRec(k).Image))>>

HasItem(t) == \E k \in 1..Len(items) : NormTriple(k) = t

\* position in the accumulator of the earliest item with triple t
FirstWith(t) ==
    CHOOSE k \in 1..Len(items) :
        NormTriple(k) = t /\ \A j \in 1..(k - 1) : NormTriple(j) # t

DupOfEarlier(k) == \E j \in 1..(k - 1) : NormTriple(j) = NormTriple(k)

EmptyOrNA(v) == v = <<>> \/ v = NA

AllSentinel(k) ==
    /\ EmptyOrNA(ItemRec(k).Name)
    /\ EmptyOrNA(ItemRec(k).PriceDisplay)
    /\ EmptyOrNA(ItemRec(k).Image)

Survivors == {k \in 1..Len(items) : ~DupOfEarlier(k) /\ ~AllSentinel(k)}

Idle == queue = <<>> /\ inflight = <<>> /\ responses = <<>>

\* C1: at most one page request is outstanding at any time, and never while
\* a downloaded page still waits to be parsed; a request is issued only by
\* the parse() step that stored every item of the current page, and that
\* step issues at most one.
C1_OneRequestAtATime ==
    /\ [](Len(queue) + Len(inflight) + Len(responses) <= 1)
    /\ [][Len(queue') > Len(queue) =>
            /\ responses # <<>>
            /\ responses' = Tail(responses)
            /\ Len(queue') = Len(queue) + 1
            /\ seq' = seq + Len(Head(responses).products)
            /\ Len(items') = Len(items) + Len(Head(responses).products)]_vars

\* a follow-up request is waiting, issued by a parse() that stored two items
\* or more
C1_Witness ==
    /\ Len(queue) = 1
    /\ inflight = <<>> /\ responses = <<>>
    /\ seq - pageStart >= 2

\* C2: the keys of self.items are exactly 1..self.seq in insertion order;
\* a parse() step keeps every earlier entry and appends the records of the
\* page's products in document order under the next numbers; the counter
\* never decreases.
C2_KeysAreOneToSeq ==
    /\ [](/\ Len(items) = seq
          /\ \A i \in 1..Len(items) : items[i][1] = i)
    /\ [][/\ seq' >= seq
          /\ Len(items') >= Len(items)
          /\ SubSeq(items', 1, Len(items)) = items
          /\ (responses # <<>> /\ responses' = Tail(responses)) =>
                LET ps == Head(responses).products
                IN /\ seq' = seq + Len(ps)
                   /\ Len(items') = Len(items) + Len(ps)
                   /\ \A i \in 1..Len(ps) :
                        items'[Len(items) + i] = <<seq + i, Record(ps[i])>>]_vars

\* a later page has added items on top of those of an earlier page
C2_Witness == pageStart > 0 /\ seq > pageStart

C4_FetchFailureEndsCrawl ==
    /\ [](failed =>
            /\ Idle
            /\ phase = "closed" =>
                 /\ csv_file.exists /\ xlsx_file.exists
                 /\ Len(DataRows) = Cardinality(Survivors)
                 /\ \A k \in Survivors :
                      \E i \in 1..Len(DataRows) : DataRows[i] = NormTriple(k))
    /\ [][/\ failed' => (items' = items /\ seq' = seq)
          /\ failed => (closedCalls' = closedCalls + 1)]_vars

\* the fetch of a later page failed and the items of the earlier pages were
\* exported
C4_Witness ==
    /\ failed /\ phase = "closed"
    /\ seq >= 2
    /\ Len(DataRows) >= 2

\* the worksheet's price cell of data row i
PriceCell(i) == xlsx_file.cells[<<i + 1, 2>>]

\* C5: no two exported rows have the same triple, and each exported row is
\* that of the earliest accumulated item with its triple, its numeric price
\* included.
C5_FirstOccurrenceWins ==
    Exported =>
        /\ \A i, j \in 1..Len(DataRows) : i # j => DataRows[i] # DataRows[j]
        /\ \A i \in 1..Len(DataRows) :
             /\ HasItem(DataRows[i])
             /\ <<i + 1, 2>> \in DOMAIN xlsx_file.cells
             /\ LET first == ItemRec(FirstWith(DataRows[i]))
                IN IF first.PriceNumeric = None
                   THEN PriceCell(i).t = "s" /\ PriceCell(i).str = NA
                   ELSE PriceCell(i).t = "n"
                        /\ PriceCell(i).num = first.PriceNumeric

\* two items with one triple and different numeric prices were accumulated
\* and the triple was exported
C5_Witness ==
    /\ Exported
    /\ \E j, k \in 1..Len(items) :
         /\ j < k
         /\ NormTriple(j) = NormTriple(k)
         /\ ItemRec(j).PriceNumeric # ItemRec(k).PriceNumeric
         /\ \E i \in 1..Len(DataRows) : DataRows[i] = NormTriple(j)

\* C6: the exported rows follow the order of the sequence numbers of the
\* items they come from.
C6_OrderPreserved ==
    Exported =>
        \A i, j \in 1..Len(DataRows) :
            i < j =>
                /\ HasItem(DataRows[i]) /\ HasItem(DataRows[j])
                /\ items[FirstWith(DataRows[i])][1]
                     < items[FirstWith(DataRows[j])][1]

\* two rows were exported around an item that was dropped
C6_Witness ==
    /\ Exported
    /\ Len(DataRows) = 2
    /\ Len(items) = 3
    /\ DataRows[1] = NormTriple(1)
    /\ DataRows[2] = NormTriple(3)

\* C7: an accumulated item is exported if and only if no earlier item has
\* its triple and its three display fields are not all empty or "N/A"; every
\* exported row has a field that is not "N/A".
C7_DroppedIffDuplicateOrEmpty ==
    Exported =>
        /\ Len(DataRows) = Cardinality(Survivors)
        /\ \A k \in 1..Len(items) :
             (\E i \in 1..Len(DataRows) : DataRows[i] = NormTriple(k))
                 <=> ~AllSentinel(k)
        /\ \A i \in 1..Len(DataRows) :
             \E c \in 1..3 : DataRows[i][c] # NA

\* an item with an unparseable price and a real name was exported while an
\* item with nothing but sentinels was dropped
C7_Witness ==
    /\ Exported
    /\ \E k \in 1..Len(items) :
         /\ ItemRec(k).PriceDisplay = NA
         /\ ~EmptyOrNA(ItemRec(k).Name)
         /\ \E i \in 1..Len(DataRows) : DataRows[i] = NormTriple(k)
    /\ \E k \in 1..Len(items) :
         AllSentinel(k) /\ ItemRec(k).Name = NA

\* C9: with N data rows in the delimited file, the worksheet holds the
\* header in row 1, the same N rows in rows 2..N+1 and the metadata row at
\* N+3 and nothing else; names and images are equal, and the price cell is
\* a number exactly when the delimited price is not "N/A" and the text "N/A"
\* exactly when it is.
C9_FilesAgree ==
    Exported =>
        LET n == Len(DataRows)
            cells == xlsx_file.cells
        IN /\ DOMAIN cells = ((1..(n + 1)) \X (1..3)) \cup {<<n + 3, 1>>}
           /\ \A c \in 1..3 : cells[<<1, c>>].str = csv_file.rows[1][c]
           /\ xlsx_file.merged.row = n + 3
           /\ cells[<<n + 3, 1>>].str = MetaNote
           /\ \A i \in 1..n :
                /\ cells[<<i + 1, 1>>].t = "s"
                /\ cells[<<i + 1, 1>>].str = DataRows[i][1]
                /\ cells[<<i + 1, 3>>].t = "s"
                /\ cells[<<i + 1, 3>>].str = DataRows[i][3]
                /\ (cells[<<i + 1, 2>>].t = "n") <=> (DataRows[i][2] # NA)
                /\ (cells[<<i + 1, 2>>].t = "s" /\ cells[<<i + 1, 2>>].str = NA)
                     <=> (DataRows[i][2] = NA)

\* an export with a priced row and a row without a price
C9_Witness ==
    /\ Exported
    /\ \E i \in 1..Len(DataRows) : DataRows[i][2] # NA
    /\ \E i \in 1..Len(DataRows) : DataRows[i][2] = NA

\* C10: the crawl eventually ends and closed() runs.
C10_CrawlTerminates == <>(phase = "closed")

====
